---- MODULE Spec2Model ----
(***************************************************************************)
(* Model of the two engines of hyperliquid-trade:                          *)
(*   - reconstructPositions (src/src/app/trades/page.tsx), stepped fill by *)
(*     fill, specification Spec;                                           *)
(*   - normalizeBook (src/src/app/orderbook/page.tsx), specification       *)
(*     SpecBook.                                                           *)
(* JavaScript numbers are modelled exactly: sizes, prices and timestamps   *)
(* are integers, and the two quantities the code divides or accumulates    *)
(* (avgEntryPx, realizedPnl) are rationals [n, d] in lowest terms.         *)
(***************************************************************************)
EXTENDS Integers, Sequences, FiniteSets, TLC

\* ------------------------------------------------------------------ bounds

\* Longest fill array drawn exhaustively from FillDom.
MaxFills == 2

Coins == {"ETH", "BTC"}
Sides == {"B", "S"}
Sizes == {0, 1, 2}
Prices == {100, 110}
Times == {0, 10}

\* Length of the arrays drawn from DeepDom.
DeepLen == 4

DeepTimes == {0, 5, 20}

\* ------------------------------------------------------- numbers (rationals)

Abs(x) == IF x < 0 THEN -x ELSE x

Min(a, b) == IF a < b THEN a ELSE b

Max(a, b) == IF a > b THEN a ELSE b

RECURSIVE GCD(_, _)
GCD(a, b) == IF b = 0 THEN a ELSE GCD(b, a % b)

\* n/d in lowest terms, d > 0
QNorm(n, d) ==
    LET g == GCD(Abs(n), Abs(d))
        s == IF d < 0 THEN -1 ELSE 1
    IN  [n |-> s * (n \div g), d |-> s * (d \div g)]

QInt(i) == [n |-> i, d |-> 1]

QAdd(a, b) == QNorm(a.n * b.d + b.n * a.d, a.d * b.d)

QSub(a, b) == QNorm(a.n * b.d - b.n * a.d, a.d * b.d)

QMulInt(a, k) == QNorm(a.n * k, a.d)

QDivInt(a, k) == QNorm(a.n, a.d * k)

\* ------------------------------------------------------------------- inputs

Fill(c, s, z, p, t) == [coin |-> c, side |-> s, sz |-> z, px |-> p, time |-> t]

FillDom == [coin : Coins, side : Sides, sz : Sizes, px : Prices, time : Times]

SmallInputs == UNION {[1..n -> FillDom] : n \in 0..MaxFills}

\* Longer arrays over unit sizes and one price: several round-trips, two coins.
DeepDom == [coin : Coins, side : Sides, sz : {1}, px : {100}, time : DeepTimes]

DeepInputs == [1..DeepLen -> DeepDom]

\* The scenarios of the specification's testable properties, and relatives.
ScnAveraging ==
    <<Fill("ETH", "B", 1, 100, 0), Fill("ETH", "B", 1, 120, 5),
      Fill("ETH", "S", 2, 130, 10)>>

ScnAveragingLate ==
    <<Fill("ETH", "B", 1, 100, 1), Fill("ETH", "B", 1, 120, 5),
      Fill("ETH", "S", 2, 130, 10)>>

ScnUnevenAverage ==
    <<Fill("ETH", "S", 1, 100, 5), Fill("ETH", "S", 2, 110, 5),
      Fill("ETH", "B", 1, 100, 7), Fill("ETH", "B", 2, 120, 9)>>

ScnTwoTrips ==
    <<Fill("ETH", "B", 1, 100, 0), Fill("ETH", "S", 1, 110, 10),
      Fill("ETH", "B", 1, 100, 20), Fill("ETH", "S", 1, 100, 30)>>

ScnTwoTripsLate ==
    <<Fill("ETH", "B", 1, 100, 1), Fill("ETH", "S", 1, 110, 10),
      Fill("ETH", "B", 1, 100, 20), Fill("ETH", "S", 1, 100, 30)>>

ScnFlip ==
    <<Fill("ETH", "B", 1, 100, 10), Fill("ETH", "S", 2, 110, 20),
      Fill("ETH", "B", 1, 120, 30)>>

ScnNegativeSize ==
    <<Fill("ETH", "B", -1, 100, 10), Fill("ETH", "B", 1, 110, 20)>>

ScnZeroPrice ==
    <<Fill("ETH", "B", 1, 0, 10), Fill("ETH", "S", 1, 100, 20)>>

ScnOrdering ==
    <<Fill("BTC", "S", 2, 100, 1), Fill("ETH", "B", 1, 100, 2),
      Fill("BTC", "B", 2, 110, 5), Fill("ETH", "S", 1, 110, 20)>>

Scenarios ==
    {ScnAveraging, ScnAveragingLate, ScnUnevenAverage, ScnTwoTrips, ScnTwoTripsLate,
     ScnFlip, ScnNegativeSize, ScnZeroPrice, ScnOrdering}

Inputs == SmallInputs \cup DeepInputs \cup Scenarios

\* ------------------------------------------------------------------- state

VARIABLES
    pc,            \* "group" | "loop" | "done": position in reconstructPositions
    fills,         \* the argument
    byCoin,        \* sequence of [coin, fills] in key insertion order
    ci,            \* index in byCoin of the coin being processed (0: none yet)
    coinFills,     \* the current coin's fills, sorted by time
    fi,            \* index in coinFills of the next fill
    positionSide,  \* "long" | "short" | "null"
    positionSize,
    openTime,
    realizedPnl,
    avgEntryPx,
    results,
    bookPc,        \* "idle" | "call" | "returned": a call of normalizeBook
    input,         \* its argument
    norm,          \* what it returned or threw
    ladder,        \* one displayed side (bids or asks), an array of [price, size]
    depthPc,       \* "idle" | "render" | "rendered": the memos of one render
    depthRows,     \* bidsCum / asksCum of the side
    depthMax,      \* maxBid / maxAsk of the side
    selectedCoin,  \* the page's `coin` state
    bids,          \* displayed bids
    asks,          \* displayed asks
    fetches,       \* one snapshot request per run of the snapshot effect
    sockets,       \* one WebSocket per run of the WebSocket effect
    wsRef,         \* wsRef.current: index into sockets, 0 for null
    ev,            \* the inbound response or message handled by the last step
    response,      \* the HTTP response to the fills request
    fetchPc,       \* "idle" | "call" | "returned": fetchUserFills
    fetched,       \* what fetchUserFills returned or threw
    address,       \* the trades page's address input
    loadedFills,   \* the trades page's `fills` state
    error,         \* the trades page's error message
    loading,       \* the trades page's loading flag
    pending,       \* calls of onSubmit waiting at the await
    settled        \* how the await of the last step ended

reconVars == <<pc, fills, byCoin, ci, coinFills, fi, positionSide, positionSize,
               openTime, realizedPnl, avgEntryPx, results>>

bookVars == <<bookPc, input, norm>>

depthVars == <<ladder, depthPc, depthRows, depthMax>>

pageVars == <<selectedCoin, bids, asks, fetches, sockets, wsRef, ev>>

fetchVars == <<response, fetchPc, fetched>>

tradesVars == <<address, loadedFills, error, loading, pending, settled>>

nonReconVars == <<bookVars, depthVars, pageVars, fetchVars, tradesVars>>

nonBookVars == <<reconVars, depthVars, pageVars, fetchVars, tradesVars>>

nonDepthVars == <<reconVars, bookVars, pageVars, fetchVars, tradesVars>>

nonPageVars == <<reconVars, bookVars, depthVars, fetchVars, tradesVars>>

nonFetchVars == <<reconVars, bookVars, depthVars, pageVars, tradesVars>>

nonTradesVars == <<reconVars, bookVars, depthVars, pageVars, fetchVars>>

vars == <<reconVars, bookVars, depthVars, pageVars, fetchVars, tradesVars>>

\* ------------------------------------------------- pure parts of the code

RECURSIVE GroupFrom(_, _)
GroupFrom(fs, acc) ==
    IF fs = << >> THEN acc
    ELSE LET f == Head(fs)
             hit == {i \in 1..Len(acc) : acc[i].coin = f.coin}
         IN  IF hit = {}
             THEN GroupFrom(Tail(fs), Append(acc, [coin |-> f.coin, fills |-> <<f>>]))
             ELSE LET i == CHOOSE i \in hit : TRUE
                  IN  GroupFrom(Tail(fs),
                        [acc EXCEPT ![i].fills = Append(acc[i].fills, f)])

\* Mutant of GroupByCoin: every fill goes into the group of the first coin.
GroupAsOne(fs) == IF fs = << >> THEN << >> ELSE <<[coin |-> fs[1].coin, fills |-> fs]>>

GroupByCoin(fs) == GroupFrom(fs, << >>)

\* Stable insertion of f into a sequence sorted ascending by time.
RECURSIVE InsertByTime(_, _)
InsertByTime(s, f) ==
    IF s = << >> THEN <<f>>
    ELSE IF f.time - Head(s).time < 0 THEN <<f>> \o s
    ELSE <<Head(s)>> \o InsertByTime(Tail(s), f)

RECURSIVE SortFrom(_, _)
SortFrom(fs, acc) ==
    IF fs = << >> THEN acc ELSE SortFrom(Tail(fs), InsertByTime(acc, Head(fs)))

SortByTime(fs) == SortFrom(fs, << >>)

\* Stable insertion of r into a sequence sorted descending by closeTime.
RECURSIVE InsertByClose(_, _)
InsertByClose(s, r) ==
    IF s = << >> THEN <<r>>
    ELSE IF Head(s).closeTime - r.closeTime < 0 THEN <<r>> \o s
    ELSE <<Head(s)>> \o InsertByClose(Tail(s), r)

RECURSIVE SortCloseFrom(_, _)
SortCloseFrom(rs, acc) ==
    IF rs = << >> THEN acc
    ELSE SortCloseFrom(Tail(rs), InsertByClose(acc, Head(rs)))

\* Mutant of SortByCloseDesc: the comparator's operands swapped (ascending).
RECURSIVE InsertByCloseAsc(_, _)
InsertByCloseAsc(s, r) ==
    IF s = << >> THEN <<r>>
    ELSE IF r.closeTime - Head(s).closeTime < 0 THEN <<r>> \o s
    ELSE <<Head(s)>> \o InsertByCloseAsc(Tail(s), r)

RECURSIVE SortCloseAscFrom(_, _)
SortCloseAscFrom(rs, acc) ==
    IF rs = << >> THEN acc
    ELSE SortCloseAscFrom(Tail(rs), InsertByCloseAsc(acc, Head(rs)))

SortByCloseAsc(rs) == SortCloseAscFrom(rs, << >>)

SortByCloseDesc(rs) == SortCloseFrom(rs, << >>)

\* The locals of one coin's iteration, as the code initialises them.
FreshLocals ==
    [positionSide |-> "null", positionSize |-> 0, openTime |-> 0,
     realizedPnl |-> QInt(0), avgEntryPx |-> QInt(0)]

signedSz(f) == IF f.side = "B" THEN f.sz ELSE -f.sz

\* commitIfClosed: the record pushed (or none) and the locals afterwards.
commitIfClosed(coin, st, closeTime) ==
    IF st.positionSide # "null" /\ st.positionSize = 0 /\ st.openTime # 0
    THEN [rec |-> <<[coin |-> coin,
                     direction |-> st.positionSide,
                     openTime |-> st.openTime,
                     closeTime |-> closeTime,
                     durationMs |-> Max(0, closeTime - st.openTime),
                     realizedPnlUsd |-> st.realizedPnl]>>,
          st |-> [st EXCEPT !.positionSide = "null", !.openTime = 0,
                            !.realizedPnl = QInt(0), !.avgEntryPx = QInt(0)]]
    ELSE [rec |-> << >>, st |-> st]

IsOpen(st, f) == st.positionSize = 0

IsAdd(st, f) ==
    /\ ~IsOpen(st, f)
    /\ \/ st.positionSize > 0 /\ signedSz(f) > 0
       \/ st.positionSize < 0 /\ signedSz(f) < 0

IsReduce(st, f) == ~IsOpen(st, f) /\ ~IsAdd(st, f)

OpenStep(st, f) ==
    [st EXCEPT !.positionSize = signedSz(f),
               !.positionSide = IF signedSz(f) > 0 THEN "long" ELSE "short",
               !.openTime = f.time,
               !.avgEntryPx = QInt(f.px)]

AddStep(st, f) ==
    LET totalSz == Abs(st.positionSize) + Abs(signedSz(f))
    IN  [st EXCEPT
           !.avgEntryPx = QDivInt(QAdd(QMulInt(st.avgEntryPx, Abs(st.positionSize)),
                                       QInt(f.px * Abs(signedSz(f)))), totalSz),
           !.positionSize = st.positionSize + signedSz(f)]

\* The locals after the reducing fill's arithmetic, before the close check.
ReduceLocals(st, f) ==
    LET reduceSz == Min(Abs(st.positionSize), Abs(signedSz(f)))
        pnlPerUnit == QMulInt(QSub(QInt(f.px), st.avgEntryPx),
                              IF st.positionSize > 0 THEN 1 ELSE -1)
    IN  [st EXCEPT
           !.realizedPnl = QAdd(st.realizedPnl, QMulInt(pnlPerUnit, reduceSz)),
           !.positionSize = st.positionSize + signedSz(f)]

\* Mutant of ReduceStep: a record is pushed for every reducing fill, closed or not.
ReduceStepCommitsPartial(coin, st, f) ==
    LET st1 == ReduceLocals(st, f)
    IN  [rec |-> <<[coin |-> coin,
                    direction |-> st1.positionSide,
                    openTime |-> st1.openTime,
                    closeTime |-> f.time,
                    durationMs |-> Max(0, f.time - st1.openTime),
                    realizedPnlUsd |-> st1.realizedPnl]>>,
         st |-> IF st1.positionSize = 0 THEN commitIfClosed(coin, st1, f.time).st
                ELSE st1]

ReduceStep(coin, st, f) ==
    LET st1 == ReduceLocals(st, f)
    IN  IF st1.positionSize = 0
        THEN commitIfClosed(coin, st1, f.time)
        ELSE [rec |-> << >>, st |-> st1]

\* One iteration of the loop over coinFills.
StepFill(coin, st, f) ==
    IF IsOpen(st, f) THEN [rec |-> << >>, st |-> OpenStep(st, f)]
    ELSE IF IsAdd(st, f) THEN [rec |-> << >>, st |-> AddStep(st, f)]
    ELSE ReduceStep(coin, st, f)

\* The loop over one coin's sorted fills: the records it pushes and the
\* locals it ends with.
RECURSIVE CoinLoop(_, _, _, _)
CoinLoop(coin, st, fs, recs) ==
    IF fs = << >> THEN [recs |-> recs, st |-> st]
    ELSE LET out == StepFill(coin, st, Head(fs))
         IN  CoinLoop(coin, out.st, Tail(fs), recs \o out.rec)

RECURSIVE AllCoins(_, _)
AllCoins(groups, recs) ==
    IF groups = << >> THEN recs
    ELSE LET g == Head(groups)
         IN  AllCoins(Tail(groups),
                      CoinLoop(g.coin, FreshLocals, SortByTime(g.fills), recs).recs)

\* reconstructPositions as a function of its argument.
reconstructPositions(fs) == SortByCloseDesc(AllCoins(GroupByCoin(fs), << >>))

Locals ==
    [positionSide |-> positionSide, positionSize |-> positionSize,
     openTime |-> openTime, realizedPnl |-> realizedPnl, avgEntryPx |-> avgEntryPx]

\* --------------------------------------------------- normalizeBook: values

\* A JavaScript number: a rational or NaN.
Num(i) == [nan |-> FALSE, v |-> QInt(i)]

NumQ(n, d) == [nan |-> FALSE, v |-> QNorm(n, d)]

NaN == [nan |-> TRUE, v |-> QInt(0)]

\* Number(str) on the strings the payloads carry: "" is 0, a decimal numeral is
\* its value, anything else is NaN.
Number(str) ==
    CASE str = "" -> Num(0)
      [] str = "5" -> Num(5)
      [] str = "10" -> Num(10)
      [] str = "0.5" -> NumQ(1, 2)
      [] OTHER -> NaN

NumStrings == {"", "5", "10", "0.5", "abc"}

\* One {px, sz} level of a snapshot, and the raw sides a snapshot may carry.
RawLevels == [px : NumStrings, sz : NumStrings]

RawSides == {<< >>} \cup {<<l>> : l \in RawLevels}

\* The value of a payload's `levels` field:
\*   "absent"  no such field (undefined)
\*   "falsy"   null, 0, "" or false
\*   "pair"    [b, a], two arrays of levels
\*   "short"   [b], an array with one element
\*   "scalar"  a truthy value that is not iterable (a number, an object)
LevelsField(t, b, a) == [t |-> t, b |-> b, a |-> a]

LevelsValues ==
    {LevelsField(t, << >>, << >>) : t \in {"absent", "falsy", "scalar"}}
    \cup {LevelsField("short", b, << >>) : b \in RawSides}
    \cup {LevelsField("pair", b, a) : b \in RawSides, a \in {<< >>, <<[px |-> "10", sz |-> "5"]>>}}

\* The value of a payload's `bids` or `asks` field: absent, falsy, or an array
\* of [price, size] pairs.
SideField(t, v) == [t |-> t, v |-> v]

SideValues ==
    {SideField("absent", << >>), SideField("falsy", << >>), SideField("array", << >>),
     SideField("array", <<<<Num(10), Num(5)>>>>)}

\* A payload: null/undefined, a primitive (no own fields), or an object.
Payload(k, l, b, a) == [kind |-> k, levels |-> l, bids |-> b, asks |-> a]

Payloads ==
    {Payload(k, LevelsField("absent", << >>, << >>), SideField("absent", << >>),
             SideField("absent", << >>)) : k \in {"null", "primitive"}}
    \cup {Payload("object", l, b, a) : l \in LevelsValues, b \in SideValues, a \in SideValues}

NoPayload ==
    Payload("null", LevelsField("absent", << >>, << >>), SideField("absent", << >>),
            SideField("absent", << >>))

Truthy(field) == field.t \notin {"absent", "falsy"}

\* What a call produced: null, a book, or a thrown TypeError.
RetNull == [kind |-> "null", bids |-> << >>, asks |-> << >>]

RetBook(b, a) == [kind |-> "book", bids |-> b, asks |-> a]

Thrown == [kind |-> "throw", bids |-> << >>, asks |-> << >>]

\* raw.map((l) => [Number(l.px), Number(l.sz)])
MapLevels(raw) == [i \in 1..Len(raw) |-> <<Number(raw[i].px), Number(raw[i].sz)>>]

normalizeBook(in) ==
    IF in.kind = "null" THEN Thrown
    ELSE IF Truthy(in.levels)
    THEN IF in.levels.t = "pair"
         THEN RetBook(MapLevels(in.levels.b), MapLevels(in.levels.a))
         ELSE Thrown
    ELSE IF Truthy(in.bids) /\ Truthy(in.asks)
    THEN RetBook(in.bids.v, in.asks.v)
    ELSE RetNull

\* ------------------------------------------------ depth rows and max size

\* Longest side drawn for the depth memos.
MaxLevels == 3

NumAdd(a, b) == IF a.nan \/ b.nan THEN NaN ELSE [nan |-> FALSE, v |-> QAdd(a.v, b.v)]

\* a > b of JavaScript: false when either is NaN.
NumGt(a, b) == ~a.nan /\ ~b.nan /\ a.v.n * b.v.d > b.v.n * a.v.d

LevelPrices == {Num(10), Num(11)}

LevelSizes == {Num(0), Num(5), Num(9), NumQ(1, 2), Num(-1), NaN}

Ladders == UNION {[1..n -> LevelPrices \X LevelSizes] : n \in 0..MaxLevels}

RECURSIVE MaxFrom(_, _)
MaxFrom(levels, max) ==
    IF levels = << >> THEN max
    ELSE MaxFrom(Tail(levels), IF NumGt(Head(levels)[2], max) THEN Head(levels)[2] ELSE max)

\* Mutant of calcMaxSize: the `|| 1` fallback left out.
calcMaxSizeNoFallback(levels) == MaxFrom(levels, Num(0))

calcMaxSize(levels) ==
    LET max == MaxFrom(levels, Num(0))
    IN  IF max = Num(0) THEN Num(1) ELSE max

RECURSIVE CumFrom(_, _, _)
CumFrom(levels, cum, rows) ==
    IF levels = << >> THEN rows
    ELSE LET c == NumAdd(cum, Head(levels)[2])
         IN  CumFrom(Tail(levels), c,
                     Append(rows, [p |-> Head(levels)[1], s |-> Head(levels)[2], t |-> c]))

\* Mutant of cumRows: the running sum is not carried from row to row.
cumRowsNoCarry(levels) ==
    [i \in 1..Len(levels) |-> [p |-> levels[i][1], s |-> levels[i][2], t |-> levels[i][2]]]

\* bidsCum / asksCum
cumRows(levels) == CumFrom(levels, Num(0), << >>)

DepthIdle ==
    /\ ladder = << >>
    /\ depthPc = "idle"
    /\ depthRows = << >>
    /\ depthMax = Num(1)

\* ------------------------------------------------------- order book page

\* Most coin switches in one run of the page.
MaxSwitches == 2

DEFAULT_COIN == "ETH"

AbsentLevels == LevelsField("absent", << >>, << >>)

AbsentSide == SideField("absent", << >>)

PageRaw == <<[px |-> "5", sz |-> "10"]>>

PageLevels ==
    {AbsentLevels, LevelsField("scalar", << >>, << >>), LevelsField("short", PageRaw, << >>),
     LevelsField("pair", PageRaw, << >>), LevelsField("pair", << >>, PageRaw)}

PageSides == {AbsentSide, SideField("array", << >>), SideField("array", <<<<Num(10), Num(5)>>>>)}

EmptyObject == Payload("object", AbsentLevels, AbsentSide, AbsentSide)

PagePayloads ==
    {Payload("object", l, AbsentSide, AbsentSide) : l \in PageLevels}
    \cup {Payload("object", AbsentLevels, b, a) : b \in PageSides, a \in PageSides}

\* The `data` field of a message: absent, or an object with an optional coin
\* ("" when it has none) and an optional levels field.
DataField(t, c, l) == [t |-> t, coin |-> c, levels |-> l]

NoData == DataField("absent", "", AbsentLevels)

\* What arrives: the body of a snapshot response or the text of a message.
\*   parse    "bad" (no JSON value is obtained), "null" (the JSON value null)
\*            or "object"
\*   channel  msg.channel
\*   coin     a top-level coin field, "" when there is none
\*   data     msg.data
\*   top      the object's own levels / bids / asks fields
Inbound(parse, channel, c, data, top) ==
    [parse |-> parse, channel |-> channel, coin |-> c, data |-> data, top |-> top]

Responses ==
    {Inbound(k, "", "", NoData, EmptyObject) : k \in {"bad", "null"}}
    \cup {Inbound("object", "", "", NoData, p) : p \in PagePayloads}

CoinFields == {""} \cup Coins

Messages ==
    {Inbound(k, "", "", NoData, EmptyObject) : k \in {"bad", "null"}}
    \cup {Inbound("object", "l2Book", "", DataField("object", c, l), EmptyObject) :
             c \in CoinFields, l \in PageLevels}
    \cup {Inbound("object", "l2Book", c, NoData, p) : c \in CoinFields, p \in PagePayloads}
    \cup {Inbound("object", "l2Book", "", DataField("object", c, AbsentLevels),
                  Payload("object", AbsentLevels, SideField("array", <<<<Num(10), Num(5)>>>>),
                          SideField("array", << >>))) : c \in CoinFields}
    \cup {Inbound("object", "trades", "", DataField("object", "", LevelsField("pair", PageRaw, << >>)),
                  EmptyObject),
          Inbound("object", "trades", "",  NoData,
                  Payload("object", AbsentLevels, SideField("array", <<<<Num(10), Num(5)>>>>),
                          SideField("array", << >>)))}

\* The value handed to normalizeBook.
AsPayload(m) == IF m.parse = "null" THEN NoPayload ELSE m.top

NewFetch(c) == [coin |-> c, aborted |-> FALSE, status |-> "flying"]

\* state: "connecting" | "open" | "closed" (closing or closed: close() was
\* called or the connection ended); opened: the effect's flag; sub: the coin
\* the subscribe message named, "" before it was sent.
NewSocket(c) == [coin |-> c, state |-> "connecting", opened |-> FALSE, sub |-> ""]

NoEvent ==
    [src |-> "none", idx |-> 0, msg |-> Inbound("bad", "", "", NoData, EmptyObject), out |-> "none"]

\* Mutant of discarded: the aborted flag is not consulted.
discardedNever(f) == FALSE

\* if (aborted) return;
discarded(f) == f.aborted

\* The body of the snapshot effect's async function once the response is in.
snapshot(f, resp) ==
    IF resp.parse = "bad" THEN Thrown
    ELSE IF discarded(f) THEN RetNull
    ELSE normalizeBook(AsPayload(resp))

\* The body of ws.onmessage inside its try block; c is the effect's coin.
onmessage(m, c) ==
    IF m.parse # "object" THEN Thrown
    ELSE IF m.channel # "l2Book" THEN RetNull
    ELSE IF m.data.t = "object" /\ Truthy(m.data.levels)
    THEN IF m.data.coin = "" \/ m.data.coin = c
         THEN IF m.data.levels.t = "pair"
              THEN RetBook(MapLevels(m.data.levels.b), MapLevels(m.data.levels.a))
              ELSE Thrown
         ELSE RetNull
    ELSE normalizeBook(m.top)

\* How the step ended, from what the body produced.
Outcome(r) ==
    CASE r.kind = "book" -> "applied"
      [] r.kind = "null" -> "ignored"
      [] OTHER -> "throw"

\* Mutant of tryCatch: the handler has no try/catch.
noTryCatch(o) == IF o = "throw" THEN "uncaught" ELSE o

\* try { ... } catch {}
tryCatch(o) == IF o = "throw" THEN "caught" ELSE o

setBids(cur, r) == IF r.kind = "book" THEN r.bids ELSE cur

\* Mutant of setAsks: an empty ladder keeps the asks displayed before.
setAsksKeepsOnEmpty(cur, r) == IF r.kind = "book" /\ r.asks # << >> THEN r.asks ELSE cur

setAsks(cur, r) == IF r.kind = "book" THEN r.asks ELSE cur

\* Cleanup of the snapshot effect.
CleanupFetch(fs) == [fs EXCEPT ![Len(fs)].aborted = TRUE]

\* Cleanup of the WebSocket effect: if (opened) ws.close().
CleanupSocket(socks) ==
    IF socks[Len(socks)].opened THEN [socks EXCEPT ![Len(socks)].state = "closed"] ELSE socks

\* Mutant of CloseCurrent: the effect does not close wsRef.current.
LeaveCurrent(socks, ref) == socks

\* wsRef.current?.close()
CloseCurrent(socks, ref) == IF ref = 0 THEN socks ELSE [socks EXCEPT ![ref].state = "closed"]

PageIdle ==
    /\ selectedCoin = DEFAULT_COIN
    /\ bids = << >>
    /\ asks = << >>
    /\ fetches = << >>
    /\ sockets = << >>
    /\ wsRef = 0
    /\ ev = NoEvent

\* ------------------------------------------------------- fetchUserFills

\* Longest list of fills in a response.
MaxFetched == 3

FetchFills ==
    {Fill("ETH", "B", 1, 100, 0), Fill("ETH", "S", 1, 110, 10), Fill("BTC", "B", 2, 100, 10)}

FillLists == UNION {[1..n -> FetchFills] : n \in 0..MaxFetched}

\* ok: res.ok; shape: the JSON value is the array itself ("bare"), an object
\* with the array in `fills` ("wrapped"), or an object without it ("other").
HttpResponse(ok, shape, fs) == [ok |-> ok, shape |-> shape, fills |-> fs]

HttpResponses ==
    {HttpResponse(FALSE, "other", << >>)}
    \cup {HttpResponse(TRUE, "other", << >>)}
    \cup {HttpResponse(TRUE, sh, fs) : sh \in {"bare", "wrapped"}, fs \in FillLists}

FetchThrown == [kind |-> "throw", fills |-> << >>]

FetchReturned(fs) == [kind |-> "return", fills |-> fs]

\* data?.fills: an array has no `fills` property.
fillsField(r) == IF r.shape = "wrapped" THEN [t |-> "array", v |-> r.fills] ELSE [t |-> "absent", v |-> << >>]

fetchUserFills(r) ==
    IF ~r.ok THEN FetchThrown
    ELSE IF Truthy(fillsField(r)) THEN FetchReturned(fillsField(r).v)
    ELSE FetchReturned(<< >>)

FetchIdle ==
    /\ response = HttpResponse(TRUE, "other", << >>)
    /\ fetchPc = "idle"
    /\ fetched = FetchReturned(<< >>)

\* ------------------------------------------------------------ trades page

\* Most calls of onSubmit waiting at once.
MaxPending == 2

Addresses == {"", "0xabc", " 0xabc "}

\* How a rejected fetch reads: the message of the error, "" when it has none.
RejectMessages == {"Failed to fetch", ""}

Null == [t |-> "null", v |-> << >>]

FillsValue(fs) == [t |-> "array", v |-> fs]

NoError == [t |-> "null", v |-> ""]

ErrorValue(m) == [t |-> "string", v |-> m]

\* err?.message || "Failed to load"
messageOrDefault(m) == IF m = "" THEN "Failed to load" ELSE m

\* Mutant of canSubmit: the button stays enabled while loading.
canSubmitWhileLoading(l, a) == a # ""

\* The submit button is disabled while loading; the input is required.
canSubmit(l, a) == ~l /\ a # ""

TradesIdle ==
    /\ address = ""
    /\ loadedFills = Null
    /\ error = NoError
    /\ loading = FALSE
    /\ pending = 0
    /\ settled = "none"

\* ------------------------------------------------------------------ actions

BookIdle ==
    /\ bookPc = "idle"
    /\ input = NoPayload
    /\ norm = RetNull

Init ==
    /\ fills \in Inputs
    /\ pc = "group"
    /\ byCoin = << >>
    /\ ci = 0
    /\ coinFills = << >>
    /\ fi = 1
    /\ positionSide = "null"
    /\ positionSize = 0
    /\ openTime = 0
    /\ realizedPnl = QInt(0)
    /\ avgEntryPx = QInt(0)
    /\ results = << >>
    /\ BookIdle
    /\ DepthIdle
    /\ PageIdle
    /\ FetchIdle
    /\ TradesIdle

SetLocals(st) ==
    /\ positionSide' = st.positionSide
    /\ positionSize' = st.positionSize
    /\ openTime' = st.openTime
    /\ realizedPnl' = st.realizedPnl
    /\ avgEntryPx' = st.avgEntryPx

Group ==
    /\ pc = "group"
    /\ byCoin' = GroupByCoin(fills)
    /\ pc' = "loop"
    /\ UNCHANGED <<fills, ci, coinFills, fi, positionSide, positionSize,
                   openTime, realizedPnl, avgEntryPx, results, nonReconVars>>

BeginCoin ==
    /\ pc = "loop"
    /\ fi > Len(coinFills)
    /\ ci < Len(byCoin)
    /\ ci' = ci + 1
    /\ coinFills' = SortByTime(byCoin[ci + 1].fills)
    /\ fi' = 1
    /\ SetLocals(FreshLocals)
    /\ UNCHANGED <<pc, fills, byCoin, results, nonReconVars>>

ProcessFill ==
    /\ pc = "loop"
    /\ fi <= Len(coinFills)
    /\ LET out == StepFill(byCoin[ci].coin, Locals, coinFills[fi])
       IN  /\ SetLocals(out.st)
           /\ results' = results \o out.rec
    /\ fi' = fi + 1
    /\ UNCHANGED <<pc, fills, byCoin, ci, coinFills, nonReconVars>>

Return ==
    /\ pc = "loop"
    /\ fi > Len(coinFills)
    /\ ci = Len(byCoin)
    /\ results' = SortByCloseDesc(results)
    /\ pc' = "done"
    /\ UNCHANGED <<fills, byCoin, ci, coinFills, fi, positionSide, positionSize,
                   openTime, realizedPnl, avgEntryPx, nonReconVars>>

Next == Group \/ BeginCoin \/ ProcessFill \/ Return

Spec == Init /\ [][Next]_vars

\* normalizeBook called on any payload; reconstructPositions is not running.
ReconIdle ==
    /\ pc = "idle"
    /\ fills = << >>
    /\ byCoin = << >>
    /\ ci = 0
    /\ coinFills = << >>
    /\ fi = 1
    /\ positionSide = "null"
    /\ positionSize = 0
    /\ openTime = 0
    /\ realizedPnl = QInt(0)
    /\ avgEntryPx = QInt(0)
    /\ results = << >>

InitBook ==
    /\ ReconIdle
    /\ DepthIdle
    /\ PageIdle
    /\ FetchIdle
    /\ TradesIdle
    /\ bookPc = "call"
    /\ input \in Payloads
    /\ norm = RetNull

NormalizeCall ==
    /\ bookPc = "call"
    /\ norm' = normalizeBook(input)
    /\ bookPc' = "returned"
    /\ UNCHANGED <<input, nonBookVars>>

NextBook == NormalizeCall

SpecBook == InitBook /\ [][NextBook]_vars

\* One render of a side: the maxBid/maxAsk and bidsCum/asksCum memos.
InitDepth ==
    /\ ReconIdle
    /\ BookIdle
    /\ PageIdle
    /\ FetchIdle
    /\ TradesIdle
    /\ ladder \in Ladders
    /\ depthPc = "render"
    /\ depthRows = << >>
    /\ depthMax = Num(1)

RenderDepth ==
    /\ depthPc = "render"
    /\ depthMax' = calcMaxSize(ladder)
    /\ depthRows' = cumRows(ladder)
    /\ depthPc' = "rendered"
    /\ UNCHANGED <<ladder, nonDepthVars>>

NextDepth == RenderDepth

SpecDepth == InitDepth /\ [][NextDepth]_vars

\* The order book page after mount: both effects have run once.
InitPage ==
    /\ ReconIdle
    /\ BookIdle
    /\ DepthIdle
    /\ FetchIdle
    /\ TradesIdle
    /\ selectedCoin = DEFAULT_COIN
    /\ bids = << >>
    /\ asks = << >>
    /\ fetches = <<NewFetch(DEFAULT_COIN)>>
    /\ sockets = <<NewSocket(DEFAULT_COIN)>>
    /\ wsRef = 1
    /\ ev = NoEvent

\* setCoin(c) from the dropdown: both effects' cleanups, then both effects.
SwitchCoin(c) ==
    /\ c # selectedCoin
    /\ Len(sockets) <= MaxSwitches
    /\ selectedCoin' = c
    /\ fetches' = Append(CleanupFetch(fetches), NewFetch(c))
    /\ sockets' = Append(CloseCurrent(CleanupSocket(sockets), wsRef), NewSocket(c))
    /\ wsRef' = Len(sockets) + 1
    /\ ev' = NoEvent
    /\ UNCHANGED <<bids, asks, nonPageVars>>

\* The response of snapshot request i is in.
SnapshotResolves(i, resp) ==
    /\ fetches[i].status = "flying"
    /\ LET r == snapshot(fetches[i], resp)
       IN  /\ bids' = setBids(bids, r)
           /\ asks' = setAsks(asks, r)
           /\ ev' = [src |-> "snapshot", idx |-> i, msg |-> resp, out |-> tryCatch(Outcome(r))]
    /\ fetches' = [fetches EXCEPT ![i].status = "done"]
    /\ UNCHANGED <<selectedCoin, sockets, wsRef, nonPageVars>>

\* ws.onopen of socket i.
SocketOpens(i) ==
    /\ sockets[i].state = "connecting"
    /\ sockets' = [sockets EXCEPT ![i].state = "open", ![i].opened = TRUE, ![i].sub = sockets[i].coin]
    /\ ev' = NoEvent
    /\ UNCHANGED <<selectedCoin, bids, asks, fetches, wsRef, nonPageVars>>

\* ws.onmessage of socket i; a socket delivers messages only while open.
SocketMessage(i, m) ==
    /\ sockets[i].state = "open"
    /\ LET r == onmessage(m, sockets[i].coin)
       IN  /\ bids' = setBids(bids, r)
           /\ asks' = setAsks(asks, r)
           /\ ev' = [src |-> "ws", idx |-> i, msg |-> m, out |-> tryCatch(Outcome(r))]
    /\ UNCHANGED <<selectedCoin, fetches, sockets, wsRef, nonPageVars>>

\* The connection of socket i fails or is closed by the server.
SocketDrops(i) ==
    /\ sockets[i].state # "closed"
    /\ sockets' = [sockets EXCEPT ![i].state = "closed"]
    /\ ev' = NoEvent
    /\ UNCHANGED <<selectedCoin, bids, asks, fetches, wsRef, nonPageVars>>

NextPage ==
    \/ \E c \in Coins : SwitchCoin(c)
    \/ \E i \in 1..Len(fetches), resp \in Responses : SnapshotResolves(i, resp)
    \/ \E i \in 1..Len(sockets) : SocketOpens(i)
    \/ \E i \in 1..Len(sockets), m \in Messages : SocketMessage(i, m)
    \/ \E i \in 1..Len(sockets) : SocketDrops(i)

SpecPage == InitPage /\ [][NextPage]_vars

\* One call of fetchUserFills.
InitFetch ==
    /\ ReconIdle
    /\ BookIdle
    /\ DepthIdle
    /\ PageIdle
    /\ TradesIdle
    /\ response \in HttpResponses
    /\ fetchPc = "call"
    /\ fetched = FetchReturned(<< >>)

FetchCall ==
    /\ fetchPc = "call"
    /\ fetched' = fetchUserFills(response)
    /\ fetchPc' = "returned"
    /\ UNCHANGED <<response, nonFetchVars>>

NextFetch == FetchCall

SpecFetch == InitFetch /\ [][NextFetch]_vars

\* The trades page after mount.
InitTrades ==
    /\ ReconIdle
    /\ BookIdle
    /\ DepthIdle
    /\ PageIdle
    /\ FetchIdle
    /\ TradesIdle

\* onChange of the address input.
SetAddress(a) ==
    /\ a # address
    /\ address' = a
    /\ settled' = "none"
    /\ UNCHANGED <<loadedFills, error, loading, pending, nonTradesVars>>

\* onSubmit up to the await.
Submit ==
    /\ canSubmit(loading, address)
    /\ pending < MaxPending
    /\ loading' = TRUE
    /\ error' = NoError
    /\ loadedFills' = Null
    /\ pending' = pending + 1
    /\ settled' = "none"
    /\ UNCHANGED <<address, nonTradesVars>>

\* A waiting onSubmit resumes with the HTTP response r.
FetchCompletes(r) ==
    /\ pending > 0
    /\ LET list == fetchUserFills(r)
       IN  IF list.kind = "return"
           THEN /\ loadedFills' = FillsValue(list.fills)
                /\ error' = error
                /\ settled' = "fulfilled"
           ELSE /\ error' = ErrorValue(messageOrDefault("Failed to fetch user fills"))
                /\ loadedFills' = loadedFills
                /\ settled' = "rejected"
    /\ loading' = FALSE
    /\ pending' = pending - 1
    /\ UNCHANGED <<address, nonTradesVars>>

\* A waiting onSubmit resumes with the request itself rejected.
FetchRejects(m) ==
    /\ pending > 0
    /\ error' = ErrorValue(messageOrDefault(m))
    /\ loading' = FALSE
    /\ pending' = pending - 1
    /\ settled' = "rejected"
    /\ UNCHANGED <<address, loadedFills, nonTradesVars>>

NextTrades ==
    \/ \E a \in Addresses : SetAddress(a)
    \/ Submit
    \/ \E r \in HttpResponses : FetchCompletes(r)
    \/ \E m \in RejectMessages : FetchRejects(m)

SpecTrades == InitTrades /\ [][NextTrades]_vars

\* The stepped run returns what the function returns.
StepsAgreeWithFunction == pc = "done" => results = reconstructPositions(fills)

\* ------------------------------------------------------------------ claims

\* A step of the loop over coinFills, and the fill it processes.
FillStepTaken == pc = "loop" /\ fi <= Len(coinFills) /\ fi' = fi + 1

CurFill == coinFills[fi]

Pushed == Len(results') = Len(results) + 1 /\ SubSeq(results', 1, Len(results)) = results

LastPushed == results'[Len(results')]

\* C1: a record is pushed exactly once each time a coin's running signed size
\* goes from non-zero to exactly zero, and at no other time, also when the
\* opening fill has timestamp 0.
C1_RecordOnEveryClose ==
    [][
       /\ FillStepTaken =>
            IF positionSize # 0 /\ positionSize' = 0 THEN Pushed
            ELSE results' = results
       /\ ~FillStepTaken => Len(results') = Len(results)
    ]_vars

\* C2: a buy of size s at p at t0 followed by a sell of s at q at t1 >= t0, for
\* one coin, returns exactly the record (long, t0, t1, t1 - t0, (q - p) * s).
C2_RoundTripRecord ==
    pc = "done" =>
        \A c \in Coins, s \in Sizes \ {0}, p \in Prices, q \in Prices,
           t0 \in Times, t1 \in Times :
            (t0 <= t1 /\ fills = <<Fill(c, "B", s, p, t0), Fill(c, "S", s, q, t1)>>)
            => results = <<[coin |-> c, direction |-> "long", openTime |-> t0,
                            closeTime |-> t1, durationMs |-> t1 - t0,
                            realizedPnlUsd |-> QInt((q - p) * s)]>>

\* C3: a fill on the side of the open position makes avgEntryPx the
\* size-weighted average and grows the magnitude by the fill size; the averaging
\* scenario has avgEntryPx 110 before its sell and returns one record with
\* realizedPnlUsd 40.
C3_Averaging ==
    [][
       /\ (FillStepTaken /\ IsAdd(Locals, CurFill)) =>
            /\ QMulInt(avgEntryPx', Abs(positionSize) + Abs(CurFill.sz))
                 = QAdd(QMulInt(avgEntryPx, Abs(positionSize)),
                        QInt(CurFill.px * Abs(CurFill.sz)))
            /\ Abs(positionSize') = Abs(positionSize) + Abs(CurFill.sz)
       /\ (fills = ScnAveraging /\ FillStepTaken /\ fi' = 3) => avgEntryPx' = QInt(110)
       /\ (fills = ScnAveraging /\ pc' = "done") =>
            /\ Len(results') = 1
            /\ results'[1].realizedPnlUsd = QInt(40)
    ]_vars

\* Sum of the signed sizes of the first n fills of fs.
RECURSIVE RunningSize(_, _)
RunningSize(fs, n) == IF n = 0 THEN 0 ELSE RunningSize(fs, n - 1) + signedSz(fs[n])

\* The index of the fill that opened the round-trip fill k of fs belongs to.
TripStart(fs, k) ==
    CHOOSE j \in 1..k :
        /\ RunningSize(fs, j - 1) = 0
        /\ \A i \in (j + 1)..k : RunningSize(fs, i - 1) # 0

\* The locals after fill k when only the fills of its own round-trip are
\* accumulated, from fresh locals.
OwnTrip(coin, fs, k) ==
    ReduceLocals(
        CoinLoop(coin, FreshLocals, SubSeq(fs, TripStart(fs, k), k - 1), << >>).st,
        fs[k])

\* C4: every record's realized P&L (and direction and open time) is that of its
\* own round-trip's fills only, accumulated from reset locals: nothing of an
\* earlier position is carried into it.
C4_OwnRoundTripOnly ==
    [][
       (FillStepTaken /\ Len(results') > Len(results)) =>
            LET own == OwnTrip(byCoin[ci].coin, coinFills, fi)
            IN  /\ LastPushed.realizedPnlUsd = own.realizedPnl
                /\ LastPushed.direction = own.positionSide
                /\ LastPushed.openTime = own.openTime
    ]_vars

\* C5: a fill with non-positive size or non-positive price leaves the coin's
\* locals and the records as they were, and the loop goes on.
C5_MalformedFillIgnored ==
    [][
       (FillStepTaken /\ (CurFill.sz <= 0 \/ CurFill.px <= 0)) =>
            /\ UNCHANGED <<positionSide, positionSize, openTime, realizedPnl,
                           avgEntryPx, results>>
    ]_vars

\* C6: an opposing fill larger than the position closes it to exactly zero:
\* P&L on the portion up to zero, a record with the original direction, flat
\* locals afterwards.
C6_CrossingFillClosesToZero ==
    [][
       (/\ FillStepTaken
        /\ IsReduce(Locals, CurFill)
        /\ Abs(signedSz(CurFill)) > Abs(positionSize)) =>
            /\ positionSize' = 0
            /\ positionSide' = "null"
            /\ Pushed
            /\ LastPushed.direction = positionSide
            /\ LastPushed.realizedPnlUsd =
                 QAdd(realizedPnl,
                      QMulInt(QSub(QInt(CurFill.px), avgEntryPx),
                              (IF positionSize > 0 THEN 1 ELSE -1) * Abs(positionSize)))
    ]_vars

\* C7: records are pushed only by a fill that brings the coin's size to exactly
\* zero, and a position that is open never has a record: every record of its
\* coin closed no later than the open position was opened.
C7_OnlyClosedPositionsEmitted ==
    [][
       /\ results' # results =>
            \/ /\ FillStepTaken
               /\ Pushed
               /\ positionSize # 0
               /\ positionSize' = 0
               /\ LastPushed.coin = byCoin[ci].coin
               /\ LastPushed.closeTime = CurFill.time
            \/ /\ pc' = "done"
               /\ Len(results') = Len(results)
               /\ \A r \in {results'[i] : i \in 1..Len(results')} :
                     Cardinality({i \in 1..Len(results) : results[i] = r})
                       = Cardinality({i \in 1..Len(results') : results'[i] = r})
       /\ (pc' = "loop" /\ positionSize' # 0) =>
            \A i \in 1..Len(results') :
                results'[i].coin = byCoin'[ci'].coin
                => results'[i].closeTime <= openTime'
    ]_vars

\* A coin's fills ended with an open position after one of its round-trips closed.
C7_Witness ==
    /\ pc = "done"
    /\ positionSize # 0
    /\ \E i \in 1..Len(results) : results[i].coin = byCoin[ci].coin

\* C8: the returned records are ordered by closeTime descending, across coins.
C8_SortedByCloseDesc ==
    pc = "done" =>
        \A i \in 1..Len(results), j \in 1..Len(results) :
            i < j => results[i].closeTime >= results[j].closeTime

\* Two coins' records were pushed in ascending close order and returned reversed.
C8_Witness ==
    /\ pc = "done"
    /\ Len(results) >= 2
    /\ results[1].coin # results[2].coin
    /\ results[1].closeTime > results[2].closeTime
    /\ results # AllCoins(byCoin, << >>)

InsertAt(fs, i, z) == SubSeq(fs, 1, i) \o <<z>> \o SubSeq(fs, i + 1, Len(fs))

NoopFills == [coin : Coins, side : Sides, sz : {0}, px : {100}, time : Times \cup DeepTimes]

\* C9: inserting fills of size 0 anywhere in the argument leaves the returned
\* sequence of records identical.
C9_NoopInsertion ==
    pc = "done" =>
        \A i \in 0..Len(fills), z \in NoopFills :
            reconstructPositions(InsertAt(fills, i, z)) = results

\* C10: normalizeBook returns null, and does not throw, for every payload that
\* has neither a levels field nor both a bids and an asks field.
C10_NullForUnrecognized ==
    (/\ bookPc = "returned"
     /\ input.levels.t = "absent"
     /\ ~(input.bids.t # "absent" /\ input.asks.t # "absent"))
    => norm = RetNull

\* The same for the payloads that are not null or undefined.
NullForUnrecognizedObjects ==
    (/\ bookPc = "returned"
     /\ input.kind # "null"
     /\ input.levels.t = "absent"
     /\ ~(input.bids.t # "absent" /\ input.asks.t # "absent"))
    => norm = RetNull

\* The strings of NumStrings that are numerals.
IsNumeral(str) == str \in {"5", "10", "0.5"}

AllNumerals(raw) == \A i \in 1..Len(raw) : IsNumeral(raw[i].px) /\ IsNumeral(raw[i].sz)

\* C11: a snapshot-shaped payload with a price or size string that is not a
\* number makes normalizeBook fail; no book is returned with that field
\* coerced to zero or to a non-numeric value.
C11_ParseFailureIsAnError ==
    (/\ bookPc = "returned"
     /\ input.kind = "object"
     /\ input.levels.t = "pair"
     /\ ~(AllNumerals(input.levels.b) /\ AllNumerals(input.levels.a)))
    => norm.kind = "throw"

\* Sum of the sizes of the first n levels.
RECURSIVE SumSizes(_, _)
SumSizes(levels, n) ==
    IF n = 0 THEN Num(0) ELSE NumAdd(SumSizes(levels, n - 1), levels[n][2])

\* C12: row i has the price and size of level i and the sum of the sizes of
\* levels 1..i, one row per level, in the order of the levels.
C12_DepthIsPrefixSum ==
    depthPc = "rendered" =>
        /\ Len(depthRows) = Len(ladder)
        /\ \A i \in 1..Len(ladder) :
              /\ depthRows[i].p = ladder[i][1]
              /\ depthRows[i].s = ladder[i][2]
              /\ depthRows[i].t = SumSizes(ladder, i)

\* Three levels, not in price order, with distinct running sums.
C12_Witness ==
    /\ depthPc = "rendered"
    /\ Len(ladder) = 3
    /\ NumGt(ladder[2][1], ladder[1][1])
    /\ NumGt(ladder[2][1], ladder[3][1])
    /\ NumGt(depthRows[2].t, depthRows[1].t)
    /\ NumGt(depthRows[3].t, depthRows[2].t)

AtLeastOne(x) == ~x.nan /\ x.v.n >= x.v.d

\* C13 as stated: the result of calcMaxSize is never below 1.
C13_FloorOfOne == depthPc = "rendered" => AtLeastOne(depthMax)

PositiveSizes(levels) == {levels[i][2] : i \in {j \in 1..Len(levels) : NumGt(levels[j][2], Num(0))}}

\* C13 amended: the result is the largest positive size of the side, and 1
\* when the side has none (an empty side included); it is always positive.
C13_MaxOrOne ==
    depthPc = "rendered" =>
        /\ NumGt(depthMax, Num(0))
        /\ IF PositiveSizes(ladder) = {} THEN depthMax = Num(1)
           ELSE /\ depthMax \in PositiveSizes(ladder)
                /\ \A x \in PositiveSizes(ladder) : ~NumGt(x, depthMax)

\* A side whose largest size is below 1, and an empty side.
C13_Witness ==
    /\ depthPc = "rendered"
    /\ ladder # << >>
    /\ depthMax = NumQ(1, 2)

\* Snapshot request i gets its response in this step.
Resolves(i) == fetches[i].status = "flying" /\ fetches'[i].status = "done"

\* C14: a snapshot response that comes in after the coin was switched away
\* from its request changes neither the displayed bids nor the displayed asks.
C14_StaleSnapshotDiscarded ==
    [][
       \A i \in 1..Len(fetches) :
           (Resolves(i) /\ i < Len(fetches)) => (bids' = bids /\ asks' = asks)
    ]_vars

\* A response with a usable book, other than the displayed one, came in for
\* the first request after a switch and was dropped.
C14_Witness ==
    /\ ev.src = "snapshot"
    /\ ev.idx = 1
    /\ Len(fetches) >= 2
    /\ fetches[1].coin # selectedCoin
    /\ normalizeBook(AsPayload(ev.msg)).kind = "book"
    /\ normalizeBook(AsPayload(ev.msg)).bids # bids
    /\ ev.out = "ignored"

\* C15: each switch adds a socket for the new coin; every socket that is not
\* closed is the newest one and belongs to the selected coin; a socket that
\* opened subscribed to its own coin.
C15_OneLiveSocket ==
    /\ Len(sockets) >= 1
    /\ wsRef = Len(sockets)
    /\ sockets[Len(sockets)].coin = selectedCoin
    /\ \A i \in 1..Len(sockets) :
          /\ sockets[i].state # "closed" => i = Len(sockets)
          /\ sockets[i].state = "open" => sockets[i].sub = sockets[i].coin
          /\ sockets[i].sub \in {"", sockets[i].coin}

\* The first socket was closed by a switch before it had opened, and the
\* second one is open and subscribed.
C15_Witness ==
    /\ Len(sockets) >= 2
    /\ sockets[1].state = "closed"
    /\ ~sockets[1].opened
    /\ sockets[2].state = "open"
    /\ sockets[2].sub = selectedCoin

\* A message that is not a book update: no JSON object, a channel other than
\* l2Book, or an l2Book message with no levels and not both bids and asks.
NotBookUpdate(m) ==
    \/ m.parse # "object"
    \/ m.channel # "l2Book"
    \/ /\ ~(m.data.t = "object" /\ Truthy(m.data.levels))
       /\ ~Truthy(m.top.levels)
       /\ ~(Truthy(m.top.bids) /\ Truthy(m.top.asks))

\* C16: handling a message that is not a book update raises nothing out of
\* the handler and leaves the displayed bids and asks as they were.
C16_NonBookMessageIgnored ==
    [][
       (ev'.src = "ws" /\ NotBookUpdate(ev'.msg)) =>
           /\ ev'.out \in {"ignored", "caught"}
           /\ bids' = bids
           /\ asks' = asks
    ]_vars

\* Unparseable text was caught, with a book on display.
C16_Witness ==
    /\ ev.src = "ws"
    /\ ev.msg.parse = "bad"
    /\ ev.out = "caught"
    /\ bids # << >>

\* The ladders a payload carries.
LaddersOf(m) ==
    IF m.data.t = "object" /\ Truthy(m.data.levels)
    THEN [bids |-> MapLevels(m.data.levels.b), asks |-> MapLevels(m.data.levels.a)]
    ELSE IF Truthy(m.top.levels)
    THEN [bids |-> MapLevels(m.top.levels.b), asks |-> MapLevels(m.top.levels.a)]
    ELSE [bids |-> m.top.bids.v, asks |-> m.top.asks.v]

\* C17: a step that accepts an update leaves exactly that payload's ladders on
\* display, both sides; no other step changes the display. So the display is
\* always the ladders of the last accepted update.
C17_WholesaleReplacement ==
    [][
       /\ ev'.out = "applied" => (bids' = LaddersOf(ev'.msg).bids /\ asks' = LaddersOf(ev'.msg).asks)
       /\ ev'.out # "applied" => (bids' = bids /\ asks' = asks)
    ]_vars

\* A message with bids only was accepted after a snapshot had been accepted.
C17_Witness ==
    /\ ev.src = "ws"
    /\ ev.out = "applied"
    /\ bids # << >>
    /\ asks = << >>
    /\ \E i \in 1..Len(fetches) : fetches[i].status = "done"

\* C18: for an ok response, the list returned is the list of fills of the
\* response, bare or wrapped.
C18_BareOrWrapped ==
    (fetchPc = "returned" /\ response.ok /\ response.shape \in {"bare", "wrapped"})
        => fetched = FetchReturned(response.fills)

\* The coin a message names: data.coin, else the top-level coin.
CoinOf(m) == IF m.data.t = "object" /\ m.data.coin # "" THEN m.data.coin ELSE m.coin

\* C19: handling an l2Book message that names a coin other than the selected
\* one leaves the displayed bids and asks as they were.
C19_OtherCoinNeverApplied ==
    [][
       (/\ ev'.src = "ws"
        /\ ev'.msg.parse = "object"
        /\ ev'.msg.channel = "l2Book"
        /\ CoinOf(ev'.msg) \notin {"", selectedCoin'})
       => (bids' = bids /\ asks' = asks)
    ]_vars

\* The elements of a sequence of fills or records that belong to coin c.
OnlyCoin(seq, c) == SelectSeq(seq, LAMBDA x : x.coin = c)

\* C20: the records emitted for a coin, in their order, are the records
\* emitted when the input holds that coin's fills alone.
C20_CoinsAreIndependent ==
    pc = "done" =>
        \A c \in Coins : OnlyCoin(results, c) = reconstructPositions(OnlyCoin(fills, c))

\* Interleaved fills of two coins, each coin with a record.
C20_Witness ==
    /\ pc = "done"
    /\ Len(fills) >= 4
    /\ fills[1].coin # fills[2].coin
    /\ fills[2].coin # fills[3].coin
    /\ \A c \in Coins : OnlyCoin(results, c) # << >>

\* C21: with no request in flight, loading is false and error and fills are
\* not both set; a submit clears both, a fulfilled fetch sets fills and leaves
\* the error, a rejected fetch sets the error and leaves fills.
C21_LoadingErrorFills ==
    /\ [](pending = 0 => (~loading /\ (error = NoError \/ loadedFills = Null)))
    /\ [][
          /\ pending' > pending => (error' = NoError /\ loadedFills' = Null)
          /\ (pending' < pending /\ settled' = "fulfilled") =>
                (loadedFills' # Null /\ error' = error)
          /\ (pending' < pending /\ settled' = "rejected") =>
                (error' # NoError /\ loadedFills' = loadedFills)
       ]_vars

\* A load was rejected with an error that carries no message: only the error
\* is set, to the default text, and loading is off.
C21_FailureWitness ==
    /\ pending = 0
    /\ settled = "rejected"
    /\ error = ErrorValue("Failed to load")
    /\ loadedFills = Null
    /\ ~loading

====
